---------------------------- MODULE Spec2Model ----------------------------
(***************************************************************************)
(* A model of the meshmonk registration core: the free functions of the    *)
(* registration namespace (fuse_affinities, affinity_to_correspondences,   *)
(* rigid_transformation, the Gaussian smoothing helpers and                *)
(* viscoelastic_transformation), the two ICP loops of main, and the        *)
(* library entry points of meshmonk.cpp.                                   *)
(*                                                                         *)
(* float values are modelled as exact rationals <<n, d>> in lowest terms   *)
(* with d > 0; every non-finite IEEE value (the result of a division by    *)
(* zero and everything computed from it) is the single value NaN.          *)
(***************************************************************************)
EXTENDS Integers, Sequences, FiniteSets, TLC

(***************************************************************************)
(* Bounds of the model.                                                    *)
(***************************************************************************)
\* largest number of floating / target vertices of the correspondence model
MaxVertices == 3
\* largest uniform scale between the floating mesh and its correspondences
MaxScale == 2
\* largest coordinate of the translation between them
MaxTranslation == 1
\* largest number of viscoelastic updates in one resolution level
MaxUpdates == 2
\* largest number of neighbours of a smoothing pass
MaxNeighbours == 2
\* largest numIterations and numPyramidLayers of a pyramid registration
MaxNumIterations == 6
MaxPyramidLayers == 3

(***************************************************************************)
(* Program constants.                                                      *)
(***************************************************************************)
\* registration::NUM_FEATURES: x y z nx ny nz
NUM_FEATURES == 6
\* main: the lengths of the rigid and of the non-rigid loop
numRigidIterations == 10
numNonrigidIterations == 10
\* the defaults of the number of passes at the end of the annealing
transformNumViscousIterationsEnd == 1
transformNumElasticIterationsEnd == 1

(***************************************************************************)
(* Exact rational arithmetic standing for float.                           *)
(***************************************************************************)
Abs(x) == IF x < 0 THEN -x ELSE x

RECURSIVE GCD(_, _)
GCD(a, b) == IF b = 0 THEN a ELSE GCD(b, a % b)

NaN == <<0, 0>>

IsNaN(a) == a[2] = 0

Norm(n, d) ==
    IF d = 0 THEN NaN
    ELSE LET g == GCD(Abs(n), Abs(d))
             s == IF d < 0 THEN -1 ELSE 1
         IN  <<(s * n) \div g, (s * d) \div g>>

R(i) == <<i, 1>>

Frac(n, d) == Norm(n, d)

RAdd(a, b) == IF IsNaN(a) \/ IsNaN(b) THEN NaN
              ELSE LET g == GCD(a[2], b[2])
                   IN  Norm(a[1] * (b[2] \div g) + b[1] * (a[2] \div g),
                            (a[2] \div g) * b[2])

RNeg(a) == IF IsNaN(a) THEN NaN ELSE <<-a[1], a[2]>>

RSub(a, b) == RAdd(a, RNeg(b))

RMul(a, b) == IF IsNaN(a) \/ IsNaN(b) THEN NaN
              ELSE LET g1 == GCD(Abs(a[1]), b[2])
                       g2 == GCD(Abs(b[1]), a[2])
                   IN  Norm((a[1] \div g1) * (b[1] \div g2),
                            (a[2] \div g2) * (b[2] \div g1))

\* IEEE division: a zero divisor gives a non-finite value
RDiv(a, b) == IF IsNaN(a) \/ IsNaN(b) \/ b[1] = 0 THEN NaN
              ELSE Norm(a[1] * b[2], a[2] * b[1])

\* a > b on floats: false as soon as one side is not a number
RGt(a, b) == ~IsNaN(a) /\ ~IsNaN(b) /\ a[1] * b[2] > b[1] * a[2]

\* the sequence <<Op(1), ..., Op(n)>>, every entry computed once
RECURSIVE SeqOf(_, _)
SeqOf(Op(_), n) == IF n = 0 THEN <<>> ELSE Append(SeqOf(Op, n - 1), Op(n))

RECURSIVE RSum(_)
RSum(s) == IF s = <<>> THEN R(0) ELSE RAdd(Head(s), RSum(Tail(s)))

(***************************************************************************)
(* Dense vectors and matrices (Eigen): a matrix is a sequence of rows.     *)
(***************************************************************************)
NumRows(M) == Len(M)

\* the column count of a matrix with at least one row, as Eigen keeps it
NumCols(M) == IF Len(M) = 0 THEN 0 ELSE Len(M[1])

Dot(u, v) == RSum(SeqOf(LAMBDA k : RMul(u[k], v[k]), Len(u)))

Column(M, j) == SeqOf(LAMBDA i : M[i][j], Len(M))

Transpose(M) == SeqOf(LAMBDA j : Column(M, j), NumCols(M))

\* Eigen's operator* on dense matrices
MatMul(A, B) == SeqOf(LAMBDA i : SeqOf(LAMBDA j : Dot(A[i], Column(B, j)), NumCols(B)), Len(A))

\* Eigen's matrix * vector
MatVec(A, v) == SeqOf(LAMBDA i : Dot(A[i], v), Len(A))

\* Eigen's operator+ on matrices of equal shape
MatAdd(A, B) == SeqOf(LAMBDA i : SeqOf(LAMBDA j : RAdd(A[i][j], B[i][j]), Len(A[i])), Len(A))

VARIABLES
    \* ---- correspondence filter ----
    ioAffinity1,              \* forward affinity, numFloating x numTarget
    inAffinity2,              \* backward affinity, numTarget x numFloating
    inTargetFeatures,         \* numTarget x NUM_FEATURES
    inTargetFlags,            \* numTarget
    outCorrespondingFeatures, \* numFloating x NUM_FEATURES
    outCorrespondingFlags,    \* numFloating
    symmetric,                \* push-pull filter or one-way filter
    sizeErrorReported,        \* fuse_affinities wrote its size error to cerr
    corrPc,                   \* "affinity" | "fused" | "mapped" | "aborted"
    \* ---- rigid transformer ----
    ioFeatures,               \* floating features, numVertices x NUM_FEATURES
    inCorrespondingFeatures,  \* numVertices x NUM_FEATURES
    inWeights,                \* numVertices
    paramScaling,             \* whether a scale is estimated
    oldFeatures,              \* history: ioFeatures as rigid_transformation found it
    rotQuat,                  \* history: the eigenvector the function picked
    rigidPc,                  \* "input" | "transformed"
    \* ---- viscoelastic transformer, one resolution level ----
    ioFloatingPositions,      \* numVertices x 3
    inCorrespondingPositions, \* numVertices x 3
    inFloatingWeights,        \* numVertices
    ioDisplacementField,      \* numVertices x 3, the field the transformer keeps
    paramNumNeighbourDisplacements,
    paramNumViscousSmoothingIterations,
    paramNumElasticSmoothingIterations,
    referencePositions,       \* history: the positions at the start of the level
    storedDisplacementField,  \* history: the field as the last update stored it
    viscoIteration,           \* updates done in this level
    viscoPc,                  \* "loop" | "ready"
    \* ---- the two ICP loops of main ----
    mainPhase,                \* "rigid" | "nonrigid" | "done"
    mainStage,                \* the stage the loop body runs next
    iteration,                \* the loop counter
    smoothingIterations,      \* main's counter of smoothing passes
    correspondingFlagsAllZero, \* the filter left no corresponding flag at 1
    correspondenceUpdates,    \* history: correspondenceFilter.update() calls
    inlierUpdates,            \* history: inlierDetector.update() calls
    transformerUpdates,       \* history: update() calls of the two transformers
    appliedViscousPasses,     \* history: viscous passes of the last update
    appliedElasticPasses,     \* history: elastic passes of the last update
    \* ---- pyramid registration ----
    numIterations,            \* parameter: total non-rigid iterations
    numPyramidLayers,         \* parameter: number of levels
    pyramidLevel,             \* the level being processed, the coarsest is 0
    pyramidPc,                \* "downsample" | "rigid" | "nonrigid" | "scaleshift" | "done"
    levelIteration,           \* the counter of the level's non-rigid loop
    rigidRuns,                \* history: <<level, non-rigid loops run before>> of each rigid registration
    nonrigidLoops,            \* history: iterations run by the loop of each level
    scaleShifts, \* history: the levels a scale-shift followed
    \* ---- scale shifter ----
    previousFeatures,  \* features of the coarse level, numCoarse x NUM_FEATURES
    previousIndices,  \* original index of every coarse vertex
    newFeatures,  \* features of the fine level, numFine x NUM_FEATURES
    newIndices,  \* original index of every fine vertex
    unshiftedFeatures,  \* history: newFeatures as the scale-shift found them
    shiftPc, \* "input" | "shifted"
    \* ---- downsampler ----
    floatingFlags,  \* flag of every vertex of the input mesh
    downsampleRatio,  \* parameter: the fraction of the vertices to remove
    meshVertices,  \* the vertices that survive so far, by original row
    meshEdges,  \* the edges between them
    collapses,  \* history: <<removed, kept>> of every collapse
    originalIndices,  \* output: original index of every output vertex
    downsampledFlags,  \* output: flag of every output vertex
    downsamplePc, \* "collapsing" | "done"
    \* ---- inlier detector ----
    inlierFloatingPositions,  \* positions of the floating vertices
    inlierCorrespondingPositions,  \* positions of their correspondences
    correspondingFlags,  \* flag of every correspondence, 0 or 1
    kappa,  \* parameter of the kernel
    inlierWeights,  \* output, and the weights of the previous pass
    inlierSigma,  \* history: sigma of the last pass
    inlierPc  \* "input" | "weighted" | "reweighted"

corrVars == <<ioAffinity1, inAffinity2, inTargetFeatures, inTargetFlags,
              outCorrespondingFeatures, outCorrespondingFlags, symmetric,
              sizeErrorReported, corrPc>>

rigidVars == <<ioFeatures, inCorrespondingFeatures, inWeights, paramScaling,
               oldFeatures, rotQuat, rigidPc>>

viscoVars == <<ioFloatingPositions, inCorrespondingPositions, inFloatingWeights,
               ioDisplacementField, paramNumNeighbourDisplacements,
               paramNumViscousSmoothingIterations, paramNumElasticSmoothingIterations,
               referencePositions, storedDisplacementField, viscoIteration, viscoPc>>

mainVars == <<mainPhase, mainStage, iteration, smoothingIterations,
              correspondingFlagsAllZero, correspondenceUpdates, inlierUpdates,
              transformerUpdates, appliedViscousPasses, appliedElasticPasses>>

pyramidVars == <<numIterations, numPyramidLayers, pyramidLevel, pyramidPc,
                 levelIteration, rigidRuns, nonrigidLoops, scaleShifts>>

shiftVars == <<previousFeatures, previousIndices, newFeatures, newIndices, unshiftedFeatures, shiftPc>>

downsampleVars == <<floatingFlags, downsampleRatio, meshVertices, meshEdges, collapses, originalIndices, downsampledFlags, downsamplePc>>

inlierVars == <<inlierFloatingPositions, inlierCorrespondingPositions, correspondingFlags, kappa, inlierWeights, inlierSigma, inlierPc>>

vars == <<corrVars, rigidVars, viscoVars, mainVars, pyramidVars, shiftVars, downsampleVars, inlierVars>>

notCorrVars == <<rigidVars, viscoVars, mainVars, pyramidVars, shiftVars, downsampleVars, inlierVars>>

notRigidVars == <<corrVars, viscoVars, mainVars, pyramidVars, shiftVars, downsampleVars, inlierVars>>

notViscoVars == <<corrVars, rigidVars, mainVars, pyramidVars, shiftVars, downsampleVars, inlierVars>>

notMainVars == <<corrVars, rigidVars, viscoVars, pyramidVars, shiftVars, downsampleVars, inlierVars>>

notPyramidVars == <<corrVars, rigidVars, viscoVars, mainVars, shiftVars, downsampleVars, inlierVars>>

notShiftVars == <<corrVars, rigidVars, viscoVars, mainVars, pyramidVars, downsampleVars, inlierVars>>

notDownsampleVars == <<corrVars, rigidVars, viscoVars, mainVars, pyramidVars, shiftVars, inlierVars>>

notInlierVars == <<corrVars, rigidVars, viscoVars, mainVars, pyramidVars, shiftVars, downsampleVars>>

\* the parts of the program a specification does not exercise stay idle
IdleCorr ==
    /\ ioAffinity1 = <<>>
    /\ inAffinity2 = <<>>
    /\ inTargetFeatures = <<>>
    /\ inTargetFlags = <<>>
    /\ outCorrespondingFeatures = <<>>
    /\ outCorrespondingFlags = <<>>
    /\ symmetric = FALSE
    /\ sizeErrorReported = FALSE
    /\ corrPc = "idle"

IdleRigid ==
    /\ ioFeatures = <<>>
    /\ inCorrespondingFeatures = <<>>
    /\ inWeights = <<>>
    /\ paramScaling = FALSE
    /\ oldFeatures = <<>>
    /\ rotQuat = <<>>
    /\ rigidPc = "idle"

IdleVisco ==
    /\ ioFloatingPositions = <<>>
    /\ inCorrespondingPositions = <<>>
    /\ inFloatingWeights = <<>>
    /\ ioDisplacementField = <<>>
    /\ paramNumNeighbourDisplacements = 0
    /\ paramNumViscousSmoothingIterations = 0
    /\ paramNumElasticSmoothingIterations = 0
    /\ referencePositions = <<>>
    /\ storedDisplacementField = <<>>
    /\ viscoIteration = 0
    /\ viscoPc = "idle"

IdleMain ==
    /\ mainPhase = "idle"
    /\ mainStage = "idle"
    /\ iteration = 0
    /\ smoothingIterations = 0
    /\ correspondingFlagsAllZero = FALSE
    /\ correspondenceUpdates = 0
    /\ inlierUpdates = 0
    /\ transformerUpdates = 0
    /\ appliedViscousPasses = 0
    /\ appliedElasticPasses = 0

IdlePyramid ==
    /\ numIterations = 0
    /\ numPyramidLayers = 0
    /\ pyramidLevel = 0
    /\ pyramidPc = "idle"
    /\ levelIteration = 0
    /\ rigidRuns = <<>>
    /\ nonrigidLoops = <<>>
    /\ scaleShifts = <<>>

IdleShift ==
    /\ previousFeatures = <<>>
    /\ previousIndices = <<>>
    /\ newFeatures = <<>>
    /\ newIndices = <<>>
    /\ unshiftedFeatures = <<>>
    /\ shiftPc = "idle"

IdleDownsample ==
    /\ floatingFlags = <<>>
    /\ downsampleRatio = <<0, 1>>
    /\ meshVertices = {}
    /\ meshEdges = {}
    /\ collapses = {}
    /\ originalIndices = <<>>
    /\ downsampledFlags = <<>>
    /\ downsamplePc = "idle"

IdleInlier ==
    /\ inlierFloatingPositions = <<>>
    /\ inlierCorrespondingPositions = <<>>
    /\ correspondingFlags = <<>>
    /\ kappa = <<0, 1>>
    /\ inlierWeights = <<>>
    /\ inlierSigma = <<0, 1>>
    /\ inlierPc = "idle"

(***************************************************************************)
(* fuse_affinities and affinity_to_correspondences.                        *)
(***************************************************************************)
\* helper_functions: every row of the sparse matrix divided by its own sum
normalize_sparse_matrix(M) ==
    SeqOf(LAMBDA i : SeqOf(LAMBDA j : RDiv(M[i][j], RSum(M[i])), Len(M[i])), Len(M))

\* the size check of fuse_affinities, with the four sizes as the code reads them
fuse_size_check(A1, A2) ==
    LET numRows1 == NumRows(A1)
        numRows2 == NumRows(A2)
        numCols1 == NumRows(A1)
        numCols2 == NumRows(A2)
    IN  (numRows1 /= numCols1) \/ (numCols1 /= numRows2)

\* a slip: the sum is stored without the normalisation that follows it
fuse_affinities_unnormalized(A1, A2) == MatAdd(A1, Transpose(A2))

\* ioAffinity1 += transpose(inAffinity2), then normalize_sparse_matrix
fuse_affinities(A1, A2) == normalize_sparse_matrix(MatAdd(A1, Transpose(A2)))

paramFlagRoundingLimit == Frac(9, 10)

\* the flag correction loop: it runs over the rows of inTargetFeatures and
\* rounds entry i of the flags; an entry the loop does not reach keeps its
\* product value
round_flags(flags, numElements) ==
    SeqOf(LAMBDA i : IF i <= numElements
        THEN IF RGt(flags[i], paramFlagRoundingLimit) THEN R(1) ELSE R(0)
        ELSE flags[i], Len(flags))

(***************************************************************************)
(* Inputs of the correspondence model.                                     *)
(***************************************************************************)
\* rows of a k-NN affinity over n columns: all mass on one neighbour, equal
\* mass on two adjacent neighbours, or 9/10 and 1/10 on the first two
OneHot(n, c) == SeqOf(LAMBDA j : IF j = c THEN R(1) ELSE R(0), n)

HalfHalf(n, c) == SeqOf(LAMBDA j : IF j = c \/ j = c + 1 THEN Frac(1, 2) ELSE R(0), n)

NineOne(n) == SeqOf(LAMBDA j : IF j = 1 THEN Frac(9, 10)
                              ELSE IF j = 2 THEN Frac(1, 10) ELSE R(0), n)

BaseRows(n) ==
    {OneHot(n, c) : c \in 1..n} \cup {HalfHalf(n, c) : c \in 1..(n - 1)}
        \cup (IF n >= 2 THEN {NineOne(n)} ELSE {})

\* row i of the matrix is the base row shifted cyclically by i - 1 columns
ShiftedRows(base, m) ==
    LET n == Len(base)
    IN  SeqOf(LAMBDA i : SeqOf(LAMBDA j : base[((j - i) % n) + 1], n), m)

AffinityChoices(m, n) == {ShiftedRows(b, m) : b \in BaseRows(n)}

\* target vertex j sits at (j, 0, 0) with normal (0, 0, 1)
TargetFeatureRow(j) == <<R(j), R(0), R(0), R(0), R(0), R(1)>>

ZeroFeatures(m) == SeqOf(LAMBDA i : SeqOf(LAMBDA k : R(0), NUM_FEATURES), m)

InitCorr ==
    /\ IdleRigid
    /\ IdleVisco
    /\ IdleMain
    /\ IdlePyramid
    /\ IdleShift
    /\ IdleDownsample
    /\ IdleInlier
    /\ \E numFloating \in 1..MaxVertices, numTarget \in 1..MaxVertices :
        /\ ioAffinity1 \in AffinityChoices(numFloating, numTarget)
        /\ inAffinity2 \in AffinityChoices(numTarget, numFloating)
        /\ inTargetFeatures = SeqOf(LAMBDA j : TargetFeatureRow(j), numTarget)
        /\ inTargetFlags \in [1..numTarget -> {R(0), R(1)}]
        /\ outCorrespondingFeatures = ZeroFeatures(numFloating)
        /\ outCorrespondingFlags = SeqOf(LAMBDA i : R(1), numFloating)
        /\ symmetric \in BOOLEAN
        /\ sizeErrorReported = FALSE
        /\ corrPc = "affinity"

\* a mutation of affinity_to_correspondences: the products are stored back
\* into the target arguments as well
affinity_to_correspondences_in_place(targetFeatures, targetFlags, inAffinity) ==
    [inTargetFeatures |-> MatMul(inAffinity, targetFeatures),
     inTargetFlags |-> round_flags(MatVec(inAffinity, targetFlags), NumRows(targetFeatures)),
     outCorrespondingFeatures |-> MatMul(inAffinity, targetFeatures),
     outCorrespondingFlags |-> round_flags(MatVec(inAffinity, targetFlags), NumRows(targetFeatures))]

\* the arguments of affinity_to_correspondences after the call: the target
\* features and flags are const references, the corresponding features and
\* flags are assigned the products, and the flags are rounded
affinity_to_correspondences(targetFeatures, targetFlags, inAffinity) ==
    [inTargetFeatures |-> targetFeatures,
     inTargetFlags |-> targetFlags,
     outCorrespondingFeatures |-> MatMul(inAffinity, targetFeatures),
     outCorrespondingFlags |-> round_flags(MatVec(inAffinity, targetFlags), NumRows(targetFeatures))]

\* SymmetricCorrespondenceFilter: the forward affinity is fused with the
\* backward one before it is mapped
FuseAffinities ==
    /\ corrPc = "affinity"
    /\ symmetric
    /\ sizeErrorReported' = fuse_size_check(ioAffinity1, inAffinity2)
    /\ ioAffinity1' = fuse_affinities(ioAffinity1, inAffinity2)
    /\ corrPc' = "fused"
    /\ UNCHANGED <<inAffinity2, inTargetFeatures, inTargetFlags,
                   outCorrespondingFeatures, outCorrespondingFlags, symmetric>>
    /\ UNCHANGED notCorrVars

\* affinity_to_correspondences; when inTargetFeatures has more rows than the
\* affinity, the loop indexes outCorrespondingFlags past its end: the entries
\* inside are rounded first, then the build either stops on Eigen's index
\* assertion or carries on
AffinityToCorrespondences ==
    /\ \/ corrPc = "affinity" /\ ~symmetric
       \/ corrPc = "fused"
    /\ \E call \in {affinity_to_correspondences(inTargetFeatures, inTargetFlags, ioAffinity1)} :
           /\ inTargetFeatures' = call.inTargetFeatures
           /\ inTargetFlags' = call.inTargetFlags
           /\ outCorrespondingFeatures' = call.outCorrespondingFeatures
           /\ outCorrespondingFlags' = call.outCorrespondingFlags
    /\ IF NumRows(inTargetFeatures) > NumRows(ioAffinity1)
       THEN corrPc' \in {"mapped", "aborted"}
       ELSE corrPc' = "mapped"
    /\ UNCHANGED <<ioAffinity1, inAffinity2, symmetric, sizeErrorReported>>
    /\ UNCHANGED notCorrVars

NextCorr == FuseAffinities \/ AffinityToCorrespondences

SpecCorr == InitCorr /\ [][NextCorr]_vars

(***************************************************************************)
(* Claims about the correspondence filter, under SpecCorr.                 *)
(***************************************************************************)
IsBinaryFlag(x) == x = R(0) \/ x = R(1)

\* C1: after affinity_to_correspondences every entry of outCorrespondingFlags,
\* one per floating vertex, is exactly 0 or 1, whatever the numbers of
\* floating and target vertices are.
C1_FlagsBinary ==
    corrPc = "mapped" =>
        \A i \in 1..Len(outCorrespondingFlags) : IsBinaryFlag(outCorrespondingFlags[i])

RowSumsToOne(M) == \A i \in 1..Len(M) : RSum(M[i]) = R(1)

\* C2: every row of every affinity matrix sums to 1, and in particular every
\* row of the fused matrix that fuse_affinities leaves in ioAffinity1.
C2_AffinityRowSum == RowSumsToOne(ioAffinity1) /\ RowSumsToOne(inAffinity2)

\* a fused, non-square affinity holding a weight that only the
\* re-normalisation can have produced
C2_Witness ==
    /\ corrPc = "fused"
    /\ NumRows(ioAffinity1) /= NumCols(ioAffinity1)
    /\ \E i \in 1..NumRows(ioAffinity1) : \E j \in 1..NumCols(ioAffinity1) :
           ioAffinity1[i][j] \notin {R(0), R(1), Frac(1, 2), Frac(9, 10), Frac(1, 10)}

\* C22: a corresponding flag is 1 exactly when the affinity-weighted sum of
\* the target flags is strictly greater than 0.9, and 0 otherwise: a sum of
\* exactly 0.9 gives 0
C22_RoundedAtLimit ==
    corrPc = "mapped" =>
        \A weighted \in {MatVec(ioAffinity1, inTargetFlags)} :
            \A i \in 1..Len(outCorrespondingFlags) :
                outCorrespondingFlags[i] =
                    (IF RGt(weighted[i], Frac(9, 10)) THEN R(1) ELSE R(0))

\* C26: fuse_affinities reports its size error exactly when the dimensions
\* of inAffinity2 are not the transpose of those of ioAffinity1 (rows1 /=
\* cols2 or cols1 /= rows2); it reports nothing for a valid non-square pair
C26_SizeErrorWhenNotTransposed ==
    corrPc = "fused" =>
        (sizeErrorReported <=>
            \/ NumRows(ioAffinity1) /= NumCols(inAffinity2)
            \/ NumCols(ioAffinity1) /= NumRows(inAffinity2))

Zero3 == <<R(0), R(0), R(0)>>

Vec3Sub(u, v) == SeqOf(LAMBDA k : RSub(u[k], v[k]), 3)

Vec3Scale(a, v) == SeqOf(LAMBDA k : RMul(a, v[k]), 3)

Identity(n) == SeqOf(LAMBDA i : SeqOf(LAMBDA j : IF i = j THEN R(1) ELSE R(0), n), n)

MatScale(a, M) == SeqOf(LAMBDA i : SeqOf(LAMBDA j : RMul(a, M[i][j]), Len(M[i])), Len(M))

MatSub(A, B) == SeqOf(LAMBDA i : SeqOf(LAMBDA j : RSub(A[i][j], B[i][j]), Len(A[i])), Len(A))

Trace(M) == RSum(SeqOf(LAMBDA i : M[i][i], Len(M)))

HasNaN(M) == \E i \in 1..Len(M) : \E j \in 1..Len(M[i]) : IsNaN(M[i][j])

\* floatingPositions / correspondingPositions: column i is vertex i. The
\* columns are filled from the features only when ioFeatures has more rows
\* than columns; otherwise both stay the zero matrices they were created as.
transposed_positions(features, shapeOf) ==
    LET numVertices == NumRows(shapeOf)
        numFeatures == NumCols(shapeOf)
    IN  IF (numVertices > numFeatures) /\ (numFeatures = NUM_FEATURES)
        THEN SeqOf(LAMBDA i : SubSeq(features[i], 1, 3), numVertices)
        ELSE SeqOf(LAMBDA i : Zero3, numVertices)

\* step 1: the weighted centroid of a set of positions
sum_weights(weights) == RSum(weights)

weighted_centroid(weights, positions) ==
    SeqOf(LAMBDA k : RDiv(RSum(SeqOf(LAMBDA i : RMul(weights[i], positions[i][k]), Len(positions))),
             sum_weights(weights)), 3)

\* step 2: the cross variance matrix
cross_variance(weights, floatingPositions, correspondingPositions) ==
    LET floatingCentroid == weighted_centroid(weights, floatingPositions)
        correspondingCentroid == weighted_centroid(weights, correspondingPositions)
    IN  SeqOf(LAMBDA a : SeqOf(LAMBDA b : RSub(RDiv(RSum(SeqOf(LAMBDA i : RMul(weights[i], RMul(floatingPositions[i][a],
                                                  correspondingPositions[i][b])), Len(floatingPositions))),
                      sum_weights(weights)),
                 RMul(floatingCentroid[a], correspondingCentroid[b])), 3), 3)

\* steps 3 to 5: the anti-symmetric matrix, delta and Q
compute_Q(crossVarianceMatrix) ==
    LET antiSymmetricMatrix == MatSub(crossVarianceMatrix, Transpose(crossVarianceMatrix))
        delta == <<antiSymmetricMatrix[2][3], antiSymmetricMatrix[3][1],
                   antiSymmetricMatrix[1][2]>>
        block == MatSub(MatAdd(crossVarianceMatrix, Transpose(crossVarianceMatrix)),
                        MatScale(Trace(crossVarianceMatrix), Identity(3)))
    IN  SeqOf(LAMBDA i : SeqOf(LAMBDA j : IF i = 1 /\ j = 1 THEN Trace(crossVarianceMatrix)
            ELSE IF i = 1 THEN delta[j - 1]
            ELSE IF j = 1 THEN delta[i - 1]
            ELSE block[i - 1][j - 1], 4), 4)

(***************************************************************************)
(* Eigen::SelfAdjointEigenSolver on the 4x4 matrix Q: the eigenvalues in   *)
(* increasing order with an orthonormal set of eigenvectors, one per       *)
(* eigenvalue.  An eigenvector is kept as [v, n]: the unit vector          *)
(* v / sqrt(n) with v an integer vector and n its squared length.  The     *)
(* model knows the eigenvectors along the 24 directions of the rotations   *)
(* that map the coordinate axes onto themselves; where an eigenvalue       *)
(* repeats, every orthogonal choice inside its eigenspace is an outcome.   *)
(* A matrix holding a non-finite entry makes the solver fail and leaves    *)
(* non-finite eigenvalues and eigenvectors.                                *)
(***************************************************************************)
SquaredLength(v) == v[1] * v[1] + v[2] * v[2] + v[3] * v[3] + v[4] * v[4]

FirstNonZeroPositive(v) ==
    \E k \in 1..4 : v[k] > 0 /\ \A l \in 1..(k - 1) : v[l] = 0

QuatDirections ==
    {v \in [1..4 -> {-1, 0, 1}] :
        SquaredLength(v) \in {1, 2, 4} /\ FirstNonZeroPositive(v)}

AsRationals(v) == SeqOf(LAMBDA k : R(v[k]), Len(v))

EigenvalueAlong(Q, v) ==
    RDiv(Dot(AsRationals(v), MatVec(Q, AsRationals(v))), R(SquaredLength(v)))

IsEigenvector(Q, v) ==
    LET Qv == MatVec(Q, AsRationals(v))
        lambda == EigenvalueAlong(Q, v)
    IN  \A k \in 1..4 : Qv[k] = RMul(lambda, R(v[k]))

Orthogonal(u, v) == u[1] * v[1] + u[2] * v[2] + u[3] * v[3] + u[4] * v[4] = 0

UnitVector(v) == [v |-> v, n |-> SquaredLength(v)]

NaNVector == [v |-> <<0, 0, 0, 0>>, n |-> 0]

\* the decompositions that can be built from E, a set of pairs <<v, lambda>>:
\* an eigenvector direction with its eigenvalue
OrderedBases(E) ==
    LET After(a) == {b \in E : Orthogonal(a[1], b[1]) /\ ~RGt(a[2], b[2])}
    IN  UNION {UNION {UNION {
            {[info |-> "Success",
              eigenvalues |-> <<a[2], b[2], c[2], d[2]>>,
              eigenvectors |-> <<UnitVector(a[1]), UnitVector(b[1]),
                                 UnitVector(c[1]), UnitVector(d[1])>>] :
             d \in {x \in After(c) : Orthogonal(a[1], x[1]) /\ Orthogonal(b[1], x[1])}} :
            c \in {x \in After(b) : Orthogonal(a[1], x[1])}} :
            b \in After(a)} : a \in E}

SelfAdjointEigenSolver(Q) ==
    IF HasNaN(Q)
    THEN {[info |-> "NoConvergence",
           eigenvalues |-> <<NaN, NaN, NaN, NaN>>,
           eigenvectors |-> <<NaNVector, NaNVector, NaNVector, NaNVector>>]}
    ELSE UNION {OrderedBases(E) :
                E \in {{<<v, EigenvalueAlong(Q, v)>> :
                            v \in {u \in QuatDirections : IsEigenvector(Q, u)}}}}

\* step 6: the loop that looks for the largest eigenvalue; indexMaxVal and
\* maxEigenValue start at 0 and 0.0 (the index is 1-based here)
RECURSIVE select_eigenvalue(_, _, _, _)
select_eigenvalue(eigenvalues, i, indexMaxVal, maxEigenValue) ==
    IF i > 4 THEN indexMaxVal
    ELSE IF RGt(eigenvalues[i], maxEigenValue)
         THEN select_eigenvalue(eigenvalues, i + 1, i, eigenvalues[i])
         ELSE select_eigenvalue(eigenvalues, i + 1, indexMaxVal, maxEigenValue)

selected_eigenvector(dec) ==
    dec.eigenvectors[select_eigenvalue(dec.eigenvalues, 1, 1, R(0))]

\* step 7: the rotation matrix of the quaternion; QQ(q, a, b) is
\* rotQuat[a] * rotQuat[b] with the code's 0-based indices
QQ(q, a, b) == Frac(q.v[a + 1] * q.v[b + 1], q.n)

rotMatTemp(q) ==
    LET two == R(2) IN
    << << RSub(RSub(RAdd(QQ(q, 0, 0), QQ(q, 1, 1)), QQ(q, 2, 2)), QQ(q, 3, 3)),
          RMul(two, RSub(QQ(q, 1, 2), QQ(q, 0, 3))),
          RMul(two, RAdd(QQ(q, 1, 3), QQ(q, 0, 2))) >>,
       << RMul(two, RAdd(QQ(q, 1, 2), QQ(q, 0, 3))),
          RSub(RSub(RAdd(QQ(q, 0, 0), QQ(q, 2, 2)), QQ(q, 1, 1)), QQ(q, 3, 3)),
          RMul(two, RSub(QQ(q, 2, 3), QQ(q, 0, 1))) >>,
       << RMul(two, RSub(QQ(q, 1, 3), QQ(q, 0, 2))),
          RMul(two, RAdd(QQ(q, 2, 3), QQ(q, 0, 1))),
          RSub(RSub(RAdd(QQ(q, 0, 0), QQ(q, 3, 3)), QQ(q, 1, 1)), QQ(q, 2, 2)) >> >>

\* step 8: the scale factor
estimate_scale(scaling, rot, weights, floatingPositions, correspondingPositions) ==
    IF scaling
    THEN LET floatingCentroid == weighted_centroid(weights, floatingPositions)
             correspondingCentroid == weighted_centroid(weights, correspondingPositions)
             newFloatingPos(i) == MatVec(rot, Vec3Sub(floatingPositions[i], floatingCentroid))
             newCorrespondingPos(i) == Vec3Sub(correspondingPositions[i], correspondingCentroid)
             numerator == RSum(SeqOf(LAMBDA i : RMul(weights[i], Dot(newCorrespondingPos(i), newFloatingPos(i))), Len(floatingPositions)))
             denominator == RSum(SeqOf(LAMBDA i : RMul(weights[i], Dot(newFloatingPos(i), newFloatingPos(i))), Len(floatingPositions)))
         IN  RDiv(numerator, denominator)
    ELSE R(1)

\* step 9: the translation between the centroids
compute_translation(scaleFactor, rot, weights, floatingPositions, correspondingPositions) ==
    Vec3Sub(weighted_centroid(weights, correspondingPositions),
            Vec3Scale(scaleFactor, MatVec(rot, weighted_centroid(weights, floatingPositions))))

\* step 10: the homogeneous matrices and their product
translationMatrix(translation) ==
    SeqOf(LAMBDA i : SeqOf(LAMBDA j : IF i <= 3 /\ j = 4 THEN translation[i] ELSE Identity(4)[i][j], 4), 4)

rotationMatrix(scaleFactor, rot) ==
    SeqOf(LAMBDA i : SeqOf(LAMBDA j : IF i <= 3 /\ j <= 3 THEN RMul(scaleFactor, rot[i][j]) ELSE Identity(4)[i][j], 4), 4)

transformationMatrix(scaleFactor, rot, translation) ==
    MatMul(rotationMatrix(scaleFactor, rot), translationMatrix(translation))

\* the loop that applies the transformation: position4d keeps its fourth
\* entry from one vertex to the next, and only columns 0..2 of a row of
\* ioFeatures are written
RECURSIVE apply_transformation(_, _, _, _, _)
apply_transformation(features, floatingPositions, T, i, position4d) ==
    IF i > Len(features) THEN features
    ELSE LET extracted == <<floatingPositions[i][1], floatingPositions[i][2],
                            floatingPositions[i][3], position4d[4]>>
             moved == MatVec(T, extracted)
         IN  apply_transformation(
                 [features EXCEPT ![i] = <<moved[1], moved[2], moved[3],
                                           features[i][4], features[i][5], features[i][6]>>],
                 floatingPositions, T, i + 1, moved)

\* steps 7 to 10 and the application, for the eigenvector q that step 6 picked
rigid_transformation(features, correspondingFeatures, weights, scaling, q) ==
    LET floatingPositions == transposed_positions(features, features)
        correspondingPositions == transposed_positions(correspondingFeatures, features)
        rot == rotMatTemp(q)
        scaleFactor == estimate_scale(scaling, rot, weights, floatingPositions,
                                      correspondingPositions)
        translation == compute_translation(scaleFactor, rot, weights, floatingPositions,
                                           correspondingPositions)
    IN  apply_transformation(features, floatingPositions,
                             transformationMatrix(scaleFactor, rot, translation),
                             1, <<R(1), R(1), R(1), R(1)>>)

\* steps 1 to 5
matrix_Q(features, correspondingFeatures, weights) ==
    compute_Q(cross_variance(weights, transposed_positions(features, features),
                             transposed_positions(correspondingFeatures, features)))

\* RigidTransformer::update / compute_rigid_transformation
RigidTransformation ==
    /\ rigidPc = "input"
    /\ \E Q \in {matrix_Q(ioFeatures, inCorrespondingFeatures, inWeights)} :
       \E q \in {selected_eigenvector(dec) : dec \in SelfAdjointEigenSolver(Q)} :
           /\ ioFeatures' = rigid_transformation(ioFeatures, inCorrespondingFeatures,
                                                 inWeights, paramScaling, q)
           /\ rotQuat' = q
    /\ oldFeatures' = ioFeatures
    /\ rigidPc' = "transformed"
    /\ UNCHANGED <<inCorrespondingFeatures, inWeights, paramScaling>>
    /\ UNCHANGED notRigidVars

(***************************************************************************)
(* Inputs of the rigid model: the floating mesh is the eight corners of a  *)
(* box, every corner with a unit normal along a coordinate axis; the       *)
(* corresponding features are the floating ones under a known rotation,    *)
(* scale and translation.                                                  *)
(***************************************************************************)
BoxShapes == {<<1, 1, 1>>, <<1, 2, 3>>}

BoxOffset == <<1, 0, 2>>

\* corner i of the box, i in 1..8: the sign of each coordinate from a bit of i - 1
CornerSign(i, k) == IF ((i - 1) \div (IF k = 1 THEN 1 ELSE IF k = 2 THEN 2 ELSE 4)) % 2 = 0
                    THEN -1 ELSE 1

BoxCorner(shape, i) == SeqOf(LAMBDA k : R(BoxOffset[k] + CornerSign(i, k) * shape[k]), 3)

AxisNormal(i) == SeqOf(LAMBDA k : IF k = (i % 3) + 1 THEN R(1) ELSE R(0), 3)

FloatingBox(shape) == SeqOf(LAMBDA i : BoxCorner(shape, i) \o AxisNormal(i), 8)

TranslationChoices ==
    {<<R(x), R(y), R(0)>> : x \in 0..MaxTranslation, y \in 0..MaxTranslation}

\* the features of a mesh moved by p -> s * rot * p + t, normals rotated
MovedFeatures(features, s, rot, t) ==
    SeqOf(LAMBDA i : LET p == MatVec(rot, SubSeq(features[i], 1, 3))
            n == MatVec(rot, SubSeq(features[i], 4, 6))
        IN  SeqOf(LAMBDA k : RAdd(RMul(R(s), p[k]), t[k]), 3) \o n, Len(features))

\* every vertex carries the same weight; weight 0: no vertex is an inlier
WeightChoices == {R(1), Frac(1, 2), R(0)}

\* the rotations between the floating mesh and its correspondences: none, a
\* quarter turn about z, a quarter turn about x, a half turn about x, a half
\* turn about the diagonal of the xy plane, a third of a turn about (1, 1, 1)
RotationChoices ==
    {<<1, 0, 0, 0>>, <<1, 0, 0, 1>>, <<1, 1, 0, 0>>, <<0, 1, 0, 0>>,
     <<0, 1, 1, 0>>, <<1, 1, 1, 1>>}

InitRigid ==
    /\ IdleCorr
    /\ IdleVisco
    /\ IdleMain
    /\ IdlePyramid
    /\ IdleShift
    /\ IdleDownsample
    /\ IdleInlier
    /\ \/ \E shape \in BoxShapes, q \in RotationChoices, s \in 1..MaxScale,
             t \in TranslationChoices, w \in WeightChoices :
              /\ ioFeatures = FloatingBox(shape)
              /\ inCorrespondingFeatures =
                     MovedFeatures(FloatingBox(shape), s, rotMatTemp(UnitVector(q)), t)
              /\ inWeights = SeqOf(LAMBDA i : w, 8)
       \* a mesh with no more vertices than a vertex has features
       \/ \E shape \in BoxShapes, numVertices \in 1..MaxVertices,
             t \in TranslationChoices, w \in WeightChoices :
              /\ ioFeatures = SubSeq(FloatingBox(shape), 1, numVertices)
              /\ inCorrespondingFeatures =
                     MovedFeatures(SubSeq(FloatingBox(shape), 1, numVertices), 1,
                                   Identity(3), t)
              /\ inWeights = SeqOf(LAMBDA i : w, numVertices)
    /\ paramScaling \in BOOLEAN
    /\ oldFeatures = <<>>
    /\ rotQuat = <<>>
    /\ rigidPc = "input"

NextRigid == RigidTransformation

SpecRigid == InitRigid /\ [][NextRigid]_vars

\* the eigen solver of the model has an outcome for every input of the model
SolverDefined ==
    rigidPc = "input" =>
        \A Q \in {matrix_Q(ioFeatures, inCorrespondingFeatures, inWeights)} :
            SelfAdjointEigenSolver(Q) /= {}

(***************************************************************************)
(* Claims about the rigid transformer, under SpecRigid.                    *)
(***************************************************************************)
\* the position s * rot * f + t
similarity_image(s, rot, t, f) ==
    LET p == MatVec(rot, f) IN SeqOf(LAMBDA k : RAdd(RMul(s, p[k]), t[k]), 3)

\* C3: after a rigid update every floating position f has become
\* s * R * f + t, with R the estimated rotation, s the estimated scale (1
\* when scaling is disabled) and t = mu_c - s * R * mu_f, the translation
\* added after rotation and scale and itself neither rotated nor scaled
C3_PositionsMapped ==
    rigidPc = "transformed" =>
        \A rot \in {rotMatTemp(rotQuat)} :
        \A floatingPositions \in {transposed_positions(oldFeatures, oldFeatures)} :
        \A correspondingPositions \in
               {transposed_positions(inCorrespondingFeatures, oldFeatures)} :
        \A s \in {estimate_scale(paramScaling, rot, inWeights, floatingPositions,
                                  correspondingPositions)} :
        \A t \in {compute_translation(s, rot, inWeights, floatingPositions,
                                       correspondingPositions)} :
            \A i \in 1..Len(ioFeatures) :
                SubSeq(ioFeatures[i], 1, 3) =
                    similarity_image(s, rot, t, SubSeq(oldFeatures[i], 1, 3))

\* C4: after a rigid update every floating normal is the old normal rotated
\* by the estimated rotation R, without scale and without translation (the
\* rotated normal of a unit normal is a unit normal)
C4_NormalsRotated ==
    rigidPc = "transformed" =>
        \A rot \in {rotMatTemp(rotQuat)} :
            \A i \in 1..Len(ioFeatures) :
                SubSeq(ioFeatures[i], 4, 6) = MatVec(rot, SubSeq(oldFeatures[i], 4, 6))

\* the rigid update met a numerical failure: the weights sum to zero or the
\* eigen solver on Q did not report success
NumericalFailure(features, correspondingFeatures, weights) ==
    \/ sum_weights(weights) = R(0)
    \/ \E dec \in SelfAdjointEigenSolver(matrix_Q(features, correspondingFeatures, weights)) :
           dec.info /= "Success"

\* C16: when the rigid transformation meets a numerical failure (the inlier
\* weights sum to zero or the eigen solver on Q reports non-success) the
\* floating features are left as they were: no position computed from the
\* failed step is written
C16_FailureKeepsFeatures ==
    /\ rigidPc = "transformed"
    /\ NumericalFailure(oldFeatures, inCorrespondingFeatures, inWeights)
    => ioFeatures = oldFeatures

\* the shape that rigid_transformation warns about: not more rows than
\* columns, or not NUM_FEATURES columns
MalformedShape(features) ==
    ~((NumRows(features) > NumCols(features)) /\ (NumCols(features) = NUM_FEATURES))

\* C17: a feature matrix whose shape the rigid transformer rejects (not more
\* rows than its 6 feature columns) stops the registration before the
\* floating features are transformed: they stay as they were
C17_MalformedShapeAborts ==
    rigidPc = "transformed" /\ MalformedShape(oldFeatures) => ioFeatures = oldFeatures

\* q is a unit eigenvector of Q, and no eigenvalue of Q is greater than its
IsLargestEigenvector(Q, q) ==
    /\ q.n > 0
    /\ IsEigenvector(Q, q.v)
    /\ \A v \in QuatDirections :
           IsEigenvector(Q, v) => ~RGt(EigenvalueAlong(Q, v), EigenvalueAlong(Q, q.v))

\* C27: the rotation quaternion the rigid transformer uses is the
\* eigenvector that belongs to the largest of the four eigenvalues of Q, for
\* every Q the construction can produce, also when no eigenvalue is
\* strictly positive
C27_LargestEigenvector ==
    rigidPc = "transformed" =>
        \A Q \in {matrix_Q(oldFeatures, inCorrespondingFeatures, inWeights)} :
            IsLargestEigenvector(Q, rotQuat)

\* Q is traceless, so its eigenvalues are all zero when none is positive: for
\* every Q without a non-finite entry the loop of step 6 ends on an
\* eigenvector of the largest eigenvalue
LargestEigenvectorOfFiniteQ ==
    rigidPc = "transformed" =>
        \A Q \in {matrix_Q(oldFeatures, inCorrespondingFeatures, inWeights)} :
            ~HasNaN(Q) => IsLargestEigenvector(Q, rotQuat)

(***************************************************************************)
(* Gaussian smoothing of a vector field and viscoelastic_transformation.   *)
(***************************************************************************)
\* the smallest integer that is not below a
Ceil(a) == -((-a[1]) \div a[2])

\* paramSigmaSmoothing of every call of the model: 2^15
paramSigmaSmoothing == R(2 ^ 15)

\* float(std::exp(-0.5 * distanceSquared / std::pow(paramSigma, 2.0))) for an
\* exponent x = 0.5 * distanceSquared / paramSigma^2 far below 1: the floats
\* below 1.0 lie 2^-24 apart and exp(-x) is a little above 1 - x, so the
\* value is 1 - m * 2^-24 with m the integer nearest to x * 2^24 (the lower
\* one on a tie).  With paramSigma = 2^15 every squared distance up to 64
\* gives exactly 1.0.
gaussianWeight(distanceSquared, paramSigma) ==
    IF IsNaN(distanceSquared) \/ IsNaN(paramSigma) THEN NaN
    ELSE LET ulps == RMul(distanceSquared,
                          RDiv(R(2 ^ 23), RMul(paramSigma, paramSigma)))
             m == Ceil(RSub(ulps, Frac(1, 2)))
         IN  Frac(2 ^ 24 - m, 2 ^ 24)

squaredNorm(v) == Dot(v, v)

\* k_nearest_neighbours(positions, positions, ...) for one queried position:
\* the indices of the paramNumNeighbours nearest rows, nearest first, the
\* smaller index first among equally distant rows; entries the search does
\* not fill keep the 0 (here: 1) that MatDynInt::Zero gave them
RECURSIVE k_nearest_neighbours(_, _, _, _)
k_nearest_neighbours(queried, positions, paramNumNeighbours, found) ==
    IF Len(found) = paramNumNeighbours THEN found
    ELSE LET remaining == {j \in 1..Len(positions) :
                              \A m \in 1..Len(found) : found[m] /= j}
             distanceTo == SeqOf(LAMBDA j : squaredNorm(Vec3Sub(positions[j], queried)),
                                 Len(positions))
             best == CHOOSE j \in remaining : \A l \in remaining :
                         /\ ~RGt(distanceTo[j], distanceTo[l])
                         /\ (distanceTo[l] = distanceTo[j] => j <= l)
         IN  IF remaining = {}
             THEN k_nearest_neighbours(queried, positions, paramNumNeighbours,
                                       Append(found, 1))
             ELSE k_nearest_neighbours(queried, positions, paramNumNeighbours,
                                       Append(found, best))

\* gaussian_interpolate_vector_field: the Gaussian average of inVectors at
\* inQueriedPosition, every vector weighed by its Gaussian weight times its
\* user-defined weight, divided by the sum of those weights
gaussian_interpolate_vector_field(inQueriedPosition, inVectors, inVectorPositions, inVectorWeights, paramSigma) ==
    LET numVectors == Len(inVectors)
        combinedWeight ==
            SeqOf(LAMBDA i :
                      RMul(gaussianWeight(squaredNorm(Vec3Sub(inVectorPositions[i],
                                                              inQueriedPosition)),
                                          paramSigma),
                           inVectorWeights[i]), numVectors)
        sumWeights == RSum(combinedWeight)
    IN  SeqOf(LAMBDA c :
                  RDiv(RSum(SeqOf(LAMBDA i : RMul(combinedWeight[i], inVectors[i][c]),
                                  numVectors)),
                       sumWeights), 3)

\* gaussian_smoothing_vector_field: every vector replaced by the Gaussian
\* average of the vectors of its nearest neighbours
gaussian_smoothing_vector_field(inVectors, inVectorPositions, inVectorWeights, paramNumNeighbours, paramSigma) ==
    SeqOf(LAMBDA i :
              LET neighbourIndices ==
                      k_nearest_neighbours(inVectorPositions[i], inVectorPositions,
                                           paramNumNeighbours, <<>>)
                  neighbourPositions ==
                      SeqOf(LAMBDA j : inVectorPositions[neighbourIndices[j]],
                            paramNumNeighbours)
                  neighbourVectors ==
                      SeqOf(LAMBDA j : inVectors[neighbourIndices[j]], paramNumNeighbours)
                  neighbourWeights ==
                      SeqOf(LAMBDA j : inVectorWeights[neighbourIndices[j]],
                            paramNumNeighbours)
              IN  gaussian_interpolate_vector_field(inVectorPositions[i], neighbourVectors,
                                                    neighbourPositions, neighbourWeights,
                                                    paramSigma),
          Len(inVectorPositions))

\* Vec3Mat::Zero(numVertices, 3)
ZeroField(numVertices) == SeqOf(LAMBDA i : Zero3, numVertices)

\* the viscous loop: regulatedForceField starts as zeros and is what the
\* last of the passes left
RECURSIVE regulate_force_field(_, _, _, _, _, _, _)
regulate_force_field(forceField, regulatedForceField, floatingPositions, weights, numNeighbours, sigma, passes) ==
    IF passes = 0 THEN regulatedForceField
    ELSE LET smoothed == gaussian_smoothing_vector_field(forceField, floatingPositions,
                                                         weights, numNeighbours, sigma)
         IN  regulate_force_field(smoothed, smoothed, floatingPositions, weights,
                                  numNeighbours, sigma, passes - 1)

\* the elastic loop: <<unregulatedDisplacementField, ioDisplacementField>>
\* after the passes
RECURSIVE regulate_displacement_field(_, _, _, _, _, _, _)
regulate_displacement_field(unregulatedDisplacementField, displacementField, floatingPositions, weights, numNeighbours, sigma, passes) ==
    IF passes = 0 THEN <<unregulatedDisplacementField, displacementField>>
    ELSE LET smoothed == gaussian_smoothing_vector_field(unregulatedDisplacementField,
                                                         floatingPositions, weights,
                                                         numNeighbours, sigma)
         IN  regulate_displacement_field(smoothed, smoothed, floatingPositions, weights,
                                         numNeighbours, sigma, passes - 1)

\* viscoelastic_transformation: the new ioFloatingPositions and the new
\* ioDisplacementField
viscoelastic_transformation(floatingPositions, correspondingPositions, floatingWeights, displacementField, numNeighbours, sigma, numViscous, numElastic) ==
    LET numVertices == Len(floatingPositions)
        forceField == MatSub(correspondingPositions, floatingPositions)
        regulatedForceField ==
            regulate_force_field(forceField, ZeroField(numVertices), floatingPositions,
                                 floatingWeights, numNeighbours, sigma, numViscous)
        elastic ==
            regulate_displacement_field(MatAdd(displacementField, regulatedForceField),
                                        displacementField, floatingPositions,
                                        floatingWeights, numNeighbours, sigma, numElastic)
    IN  [positions |-> MatAdd(floatingPositions, elastic[1]),
         field |-> elastic[2]]

(***************************************************************************)
(* The transformer of the non-rigid loop over one resolution level.        *)
(* ViscoElasticTransformer keeps the displacement field between its        *)
(* updates; main constructs it once, before the loop, and in every         *)
(* iteration sets its parameters and updates it.                           *)
(***************************************************************************)
\* the displacement field of a transformer that is constructed anew, as
\* compute_nonrigid_transformation does for every call
constructed_displacement_field(displacementField) == ZeroField(Len(displacementField))

\* the displacement field of the transformer after set_parameters
set_parameters_displacement_field(displacementField) == displacementField

\* the vertices of the floating mesh lie one unit apart on a line
LinePositions(numVertices) == SeqOf(LAMBDA i : <<R(i - 1), R(0), R(0)>>, numVertices)

\* what the correspondence stage can hand over: the line moved one unit
\* sideways, or every second vertex moved one unit sideways and the others
\* one unit along the line
CorrespondingChoices(numVertices) ==
    {SeqOf(LAMBDA i : <<R(i - 1), R(1), R(0)>>, numVertices),
     SeqOf(LAMBDA i : IF i % 2 = 1 THEN <<R(i - 1), R(1), R(0)>>
                      ELSE <<R(i), R(0), R(0)>>, numVertices)}

\* what the inlier stage can hand over: every vertex an inlier, or only the
\* first one
FloatingWeightChoices(numVertices) ==
    {SeqOf(LAMBDA i : R(1), numVertices),
     SeqOf(LAMBDA i : IF i = 1 THEN R(1) ELSE R(0), numVertices)}

\* the numbers of viscous and elastic passes of one update
ScheduleChoices == {<<0, 0>>, <<1, 0>>, <<0, 1>>, <<1, 1>>, <<2, 0>>, <<0, 2>>}

InitVisco ==
    /\ IdleCorr
    /\ IdleRigid
    /\ IdleMain
    /\ IdlePyramid
    /\ IdleShift
    /\ IdleDownsample
    /\ IdleInlier
    /\ \E numVertices \in 1..MaxVertices :
           /\ ioFloatingPositions = LinePositions(numVertices)
           /\ referencePositions = LinePositions(numVertices)
           /\ inCorrespondingPositions = LinePositions(numVertices)
           /\ inFloatingWeights \in FloatingWeightChoices(numVertices)
           /\ ioDisplacementField = ZeroField(numVertices)
           /\ storedDisplacementField = ZeroField(numVertices)
           /\ paramNumNeighbourDisplacements \in
                  {k \in 1..MaxNeighbours : k <= numVertices}
    /\ paramNumViscousSmoothingIterations = 0
    /\ paramNumElasticSmoothingIterations = 0
    /\ viscoIteration = 0
    /\ viscoPc = "loop"

\* one iteration up to transformer.set_parameters: the correspondence and
\* inlier stages have written the corresponding positions
SetParameters ==
    /\ viscoPc = "loop"
    /\ viscoIteration < MaxUpdates
    \* the last choice: the mesh is registered onto itself, every vertex is
    \* its own correspondence
    /\ inCorrespondingPositions' \in
           CorrespondingChoices(Len(ioFloatingPositions)) \cup {ioFloatingPositions}
    /\ \E schedule \in ScheduleChoices :
           /\ paramNumViscousSmoothingIterations' = schedule[1]
           /\ paramNumElasticSmoothingIterations' = schedule[2]
    /\ ioDisplacementField' = set_parameters_displacement_field(ioDisplacementField)
    /\ viscoPc' = "ready"
    /\ UNCHANGED <<ioFloatingPositions, inFloatingWeights, paramNumNeighbourDisplacements,
                   referencePositions, storedDisplacementField, viscoIteration>>
    /\ UNCHANGED notViscoVars

\* transformer.update()
ViscoElasticUpdate ==
    /\ viscoPc = "ready"
    /\ \E result \in {viscoelastic_transformation(
                           ioFloatingPositions, inCorrespondingPositions,
                           inFloatingWeights, ioDisplacementField,
                           paramNumNeighbourDisplacements, paramSigmaSmoothing,
                           paramNumViscousSmoothingIterations,
                           paramNumElasticSmoothingIterations)} :
           /\ ioFloatingPositions' = result.positions
           /\ ioDisplacementField' = result.field
           /\ storedDisplacementField' = result.field
    /\ viscoIteration' = viscoIteration + 1
    /\ viscoPc' = "loop"
    /\ UNCHANGED <<inCorrespondingPositions, inFloatingWeights,
                   paramNumNeighbourDisplacements, paramNumViscousSmoothingIterations,
                   paramNumElasticSmoothingIterations, referencePositions>>
    /\ UNCHANGED notViscoVars

NextVisco == SetParameters \/ ViscoElasticUpdate

SpecVisco == InitVisco /\ [][NextVisco]_vars

(***************************************************************************)
(* Claims about the viscoelastic transformer, under SpecVisco.             *)
(***************************************************************************)
\* C5: after every viscoelastic update of a level each floating position is
\* its reference position (the position at the start of the level) plus its
\* row of the stored displacement field
C5_PositionsFromReference ==
    (viscoPc = "loop" /\ viscoIteration >= 1) =>
        ioFloatingPositions = MatAdd(referencePositions, ioDisplacementField)

\* C6: the displacement field is all zeros when the level starts, and every
\* iteration starts from the field the iteration before it stored: between
\* two updates of a level the field is never reset
C6_FieldPersists ==
    /\ (viscoPc = "loop" /\ viscoIteration = 0) =>
           ioDisplacementField = ZeroField(Len(ioFloatingPositions))
    /\ viscoPc \in {"loop", "ready"} => ioDisplacementField = storedDisplacementField

\* an iteration after the first is about to update a field that is not zero
C6_Witness ==
    /\ viscoPc = "ready"
    /\ viscoIteration >= 1
    /\ ioDisplacementField /= ZeroField(Len(ioFloatingPositions))
    /\ ~HasNaN(ioDisplacementField)

\* C20: registering a mesh onto itself is a fixed point: when every
\* corresponding position equals the floating position and the displacement
\* field is zero, a viscoelastic update leaves every position and the
\* displacement field unchanged, for any inlier weights
C20_IdentityFixedPoint ==
    [][(/\ viscoPc = "ready"
        /\ inCorrespondingPositions = ioFloatingPositions
        /\ ioDisplacementField = ZeroField(Len(ioFloatingPositions)))
       => (/\ ioFloatingPositions' = ioFloatingPositions
           /\ ioDisplacementField' = ioDisplacementField)]_vars

\* a field after the given number of Gaussian smoothing passes, none for 0
RECURSIVE smoothed_times(_, _, _, _, _, _)
smoothed_times(field, positions, weights, numNeighbours, sigma, passes) ==
    IF passes = 0 THEN field
    ELSE smoothed_times(gaussian_smoothing_vector_field(field, positions, weights, numNeighbours, sigma),
                        positions, weights, numNeighbours, sigma, passes - 1)

\* C23: for every number of viscous passes V >= 0 and elastic passes E >= 0
\* a viscoelastic update stores the old displacement field plus the force
\* field smoothed V times, the sum smoothed E times (no smoothing for 0
\* passes), and the field it stores is the field it applied to the positions
C23_StoredFieldIsSmoothedSum ==
    [][viscoPc = "ready" =>
        \A force \in {smoothed_times(MatSub(inCorrespondingPositions, ioFloatingPositions),
                                     ioFloatingPositions, inFloatingWeights,
                                     paramNumNeighbourDisplacements, paramSigmaSmoothing,
                                     paramNumViscousSmoothingIterations)} :
        \A field \in {smoothed_times(MatAdd(ioDisplacementField, force),
                                     ioFloatingPositions, inFloatingWeights,
                                     paramNumNeighbourDisplacements, paramSigmaSmoothing,
                                     paramNumElasticSmoothingIterations)} :
            /\ ioDisplacementField' = field
            /\ MatSub(ioFloatingPositions', ioFloatingPositions) = ioDisplacementField']_vars

\* C25: the Gaussian smoothing passes of an update give a defined vector for
\* every vertex, also for a vertex whose neighbours all have weight zero: no
\* undefined value reaches the displacement field or the positions
C25_SmoothingDefined ==
    viscoPc = "loop" => ~HasNaN(ioDisplacementField) /\ ~HasNaN(ioFloatingPositions)

(***************************************************************************)
(* The rigid and the non-rigid ICP loop of main.                           *)
(***************************************************************************)
\* a mutation of the loop body: the transformation before the inlier stage
stage_after_swapped(stage) ==
    CASE stage = "correspondences" -> "transformation"
      [] stage = "transformation" -> "inliers"
      [] stage = "inliers" -> "correspondences"

\* a mutation of the loops: the last iteration is left out
loop_length_one_short(phase) ==
    IF phase = "rigid" THEN numRigidIterations - 1 ELSE numNonrigidIterations - 1

\* the statements of the loop body in their order: correspondenceFilter,
\* inlierDetector, transformer, and the body again
stage_after(stage) ==
    CASE stage = "correspondences" -> "inliers"
      [] stage = "inliers" -> "transformation"
      [] stage = "transformation" -> "correspondences"

InitMain ==
    /\ IdleCorr
    /\ IdleRigid
    /\ IdleVisco
    /\ IdlePyramid
    /\ IdleShift
    /\ IdleDownsample
    /\ IdleInlier
    /\ mainPhase = "rigid"
    /\ mainStage = "correspondences"
    /\ iteration = 0
    /\ smoothingIterations = 0
    /\ correspondingFlagsAllZero = FALSE
    /\ correspondenceUpdates = 0
    /\ inlierUpdates = 0
    /\ transformerUpdates = 0
    /\ appliedViscousPasses = 0
    /\ appliedElasticPasses = 0

loop_length(phase) ==
    IF phase = "rigid" THEN numRigidIterations ELSE numNonrigidIterations

\* correspondenceFilter.update(): what it writes depends on the meshes
CorrespondenceFilterUpdate ==
    /\ mainPhase \in {"rigid", "nonrigid"}
    /\ mainStage = "correspondences"
    /\ iteration < loop_length(mainPhase)
    /\ correspondingFlagsAllZero' \in BOOLEAN
    /\ correspondenceUpdates' = correspondenceUpdates + 1
    /\ mainStage' = stage_after(mainStage)
    /\ UNCHANGED <<mainPhase, iteration, smoothingIterations, inlierUpdates,
                   transformerUpdates, appliedViscousPasses, appliedElasticPasses>>
    /\ UNCHANGED notMainVars

\* inlierDetector.update()
InlierDetectorUpdate ==
    /\ mainPhase \in {"rigid", "nonrigid"}
    /\ mainStage = "inliers"
    /\ inlierUpdates' = inlierUpdates + 1
    /\ mainStage' = stage_after(mainStage)
    /\ UNCHANGED <<mainPhase, iteration, smoothingIterations, correspondingFlagsAllZero,
                   correspondenceUpdates, transformerUpdates, appliedViscousPasses,
                   appliedElasticPasses>>
    /\ UNCHANGED notMainVars

\* rigidTransformer.update(), the last statement of the rigid loop body
RigidTransformerUpdate ==
    /\ mainPhase = "rigid"
    /\ mainStage = "transformation"
    /\ transformerUpdates' = transformerUpdates + 1
    /\ iteration' = iteration + 1
    /\ mainStage' = stage_after(mainStage)
    /\ UNCHANGED <<mainPhase, smoothingIterations, correspondingFlagsAllZero,
                   correspondenceUpdates, inlierUpdates, appliedViscousPasses,
                   appliedElasticPasses>>
    /\ UNCHANGED notMainVars

\* the end of the rigid loop and the set-up of the viscoelastic transformer
SetUpViscoElasticTransformer ==
    /\ mainPhase = "rigid"
    /\ mainStage = "correspondences"
    /\ iteration = numRigidIterations
    /\ mainPhase' = "nonrigid"
    /\ iteration' = 0
    /\ smoothingIterations' = numNonrigidIterations + 1
    /\ UNCHANGED <<mainStage, correspondingFlagsAllZero, correspondenceUpdates,
                   inlierUpdates, transformerUpdates, appliedViscousPasses,
                   appliedElasticPasses>>
    /\ UNCHANGED notMainVars

\* transformer.set_parameters(10, 3.0, smoothingIterations, smoothingIterations),
\* transformer.update() and smoothingIterations--
ViscoElasticTransformerUpdate ==
    /\ mainPhase = "nonrigid"
    /\ mainStage = "transformation"
    /\ appliedViscousPasses' = smoothingIterations
    /\ appliedElasticPasses' = smoothingIterations
    /\ smoothingIterations' = smoothingIterations - 1
    /\ transformerUpdates' = transformerUpdates + 1
    /\ iteration' = iteration + 1
    /\ mainStage' = stage_after(mainStage)
    /\ UNCHANGED <<mainPhase, correspondingFlagsAllZero, correspondenceUpdates,
                   inlierUpdates>>
    /\ UNCHANGED notMainVars

\* the end of the non-rigid loop: the result is written
WriteResult ==
    /\ mainPhase = "nonrigid"
    /\ mainStage = "correspondences"
    /\ iteration = numNonrigidIterations
    /\ mainPhase' = "done"
    /\ UNCHANGED <<mainStage, iteration, smoothingIterations, correspondingFlagsAllZero,
                   correspondenceUpdates, inlierUpdates, transformerUpdates,
                   appliedViscousPasses, appliedElasticPasses>>
    /\ UNCHANGED notMainVars

NextMain ==
    \/ CorrespondenceFilterUpdate
    \/ InlierDetectorUpdate
    \/ RigidTransformerUpdate
    \/ SetUpViscoElasticTransformer
    \/ ViscoElasticTransformerUpdate
    \/ WriteResult

SpecMain == InitMain /\ [][NextMain]_vars

\* main is one thread and no statement of it waits: a step that can be taken
\* is taken
SpecMainLive == SpecMain /\ WF_vars(NextMain)

(***************************************************************************)
(* Claims about the loops of main, under SpecMain.                         *)
(***************************************************************************)
\* the iterations the two loops have completed
completed_iterations ==
    IF mainPhase = "rigid" THEN iteration ELSE numRigidIterations + iteration

\* C7: in every iteration of the rigid and of the non-rigid loop the stages
\* run in the order correspondences, inlier weights, transformation, each
\* exactly once, and no stage of the next iteration starts before the
\* transformation of this one has finished
C7_StageOrder ==
    /\ transformerUpdates <= inlierUpdates
    /\ inlierUpdates <= correspondenceUpdates
    /\ correspondenceUpdates <= transformerUpdates + 1
    /\ transformerUpdates = completed_iterations
    /\ mainStage = "correspondences" =>
           /\ correspondenceUpdates = completed_iterations
           /\ inlierUpdates = completed_iterations
    /\ mainStage = "inliers" => inlierUpdates = completed_iterations
    /\ mainStage = "transformation" => inlierUpdates = completed_iterations + 1

\* an iteration of the non-rigid loop, not the first, is about to transform
C7_Witness ==
    /\ mainPhase = "nonrigid"
    /\ iteration >= 1
    /\ mainStage = "transformation"
    /\ correspondenceUpdates = numRigidIterations + iteration + 1

C18_EmptyCorrespondenceAborts ==
    correspondingFlagsAllZero => mainStage \notin {"transformation", "correspondences"}

interpolated_passes(start, end, k, loopLength) ==
    (2 * (start * (loopLength - 1) + (end - start) * k) + (loopLength - 1))
        \div (2 * (loopLength - 1))

iterations_per_level_floor(total, layers) == total \div layers

\* a mutation of the level schedule: no level counts as the last one
no_last_level(level, layers) == FALSE

\* round(numIterations / numPyramidLayers), halves rounded up
iterations_per_level(total, layers) == (2 * total + layers) \div (2 * layers)

is_first_level(level) == level = 0

is_last_level(level, layers) == level = layers - 1

RECURSIVE SumSeq(_)
SumSeq(s) == IF s = <<>> THEN 0 ELSE Head(s) + SumSeq(Tail(s))

InitPyramid ==
    /\ IdleCorr
    /\ IdleRigid
    /\ IdleVisco
    /\ IdleMain
    /\ IdleShift
    /\ IdleDownsample
    /\ IdleInlier
    /\ numIterations \in 1..MaxNumIterations
    /\ numPyramidLayers \in 1..MaxPyramidLayers
    /\ pyramidLevel = 0
    /\ pyramidPc = "downsample"
    /\ levelIteration = 0
    /\ rigidRuns = <<>>
    /\ nonrigidLoops = <<>>
    /\ scaleShifts = <<>>

\* step 1 of a level: the floating and the target mesh are downsampled
DownsampleLevel ==
    /\ pyramidPc = "downsample"
    /\ pyramidPc' = IF is_first_level(pyramidLevel) THEN "rigid" ELSE "nonrigid"
    /\ levelIteration' = 0
    /\ UNCHANGED <<numIterations, numPyramidLayers, pyramidLevel, rigidRuns,
                   nonrigidLoops, scaleShifts>>
    /\ UNCHANGED notPyramidVars

\* step 2, first level only: the rigid registration
RigidRegistration ==
    /\ pyramidPc = "rigid"
    /\ rigidRuns' = Append(rigidRuns, <<pyramidLevel, Len(nonrigidLoops)>>)
    /\ pyramidPc' = "nonrigid"
    /\ UNCHANGED <<numIterations, numPyramidLayers, pyramidLevel, levelIteration,
                   nonrigidLoops, scaleShifts>>
    /\ UNCHANGED notPyramidVars

\* step 3: one iteration of the level's non-rigid loop
NonrigidIteration ==
    /\ pyramidPc = "nonrigid"
    /\ levelIteration < iterations_per_level(numIterations, numPyramidLayers)
    /\ levelIteration' = levelIteration + 1
    /\ UNCHANGED <<numIterations, numPyramidLayers, pyramidLevel, pyramidPc, rigidRuns,
                   nonrigidLoops, scaleShifts>>
    /\ UNCHANGED notPyramidVars

\* the end of the level's non-rigid loop
NonrigidLoopEnd ==
    /\ pyramidPc = "nonrigid"
    /\ levelIteration >= iterations_per_level(numIterations, numPyramidLayers)
    /\ nonrigidLoops' = Append(nonrigidLoops, levelIteration)
    /\ pyramidPc' = IF is_last_level(pyramidLevel, numPyramidLayers)
                    THEN "done" ELSE "scaleshift"
    /\ UNCHANGED <<numIterations, numPyramidLayers, pyramidLevel, levelIteration,
                   rigidRuns, scaleShifts>>
    /\ UNCHANGED notPyramidVars

\* step 4, every level but the last: the scale-shift to the next level
ScaleShift ==
    /\ pyramidPc = "scaleshift"
    /\ scaleShifts' = Append(scaleShifts, pyramidLevel)
    /\ pyramidLevel' = pyramidLevel + 1
    /\ pyramidPc' = "downsample"
    /\ UNCHANGED <<numIterations, numPyramidLayers, levelIteration, rigidRuns,
                   nonrigidLoops>>
    /\ UNCHANGED notPyramidVars

NextPyramid ==
    \/ DownsampleLevel
    \/ RigidRegistration
    \/ NonrigidIteration
    \/ NonrigidLoopEnd
    \/ ScaleShift

SpecPyramid == InitPyramid /\ [][NextPyramid]_vars

(***************************************************************************)
(* Claims about the pyramid registration, under SpecPyramid.               *)
(***************************************************************************)
\* C9: a pyramid run of L levels runs the rigid registration exactly once,
\* in the first level and before that level's non-rigid loop; it runs one
\* non-rigid loop per level; and a scale-shift follows every level except
\* the last, L - 1 scale-shifts in all and none after the final level
C9_PyramidSchedule ==
    /\ Len(rigidRuns) <= 1
    /\ \A r \in 1..Len(rigidRuns) : rigidRuns[r] = <<0, 0>>
    /\ pyramidPc \in {"nonrigid", "scaleshift", "done"} => Len(rigidRuns) = 1
    /\ pyramidLevel < numPyramidLayers
    /\ Len(scaleShifts) = pyramidLevel
    /\ \A k \in 1..Len(scaleShifts) :
           scaleShifts[k] = k - 1 /\ scaleShifts[k] < numPyramidLayers - 1
    /\ pyramidPc = "scaleshift" => pyramidLevel < numPyramidLayers - 1
    /\ Len(nonrigidLoops) =
           pyramidLevel + (IF pyramidPc \in {"scaleshift", "done"} THEN 1 ELSE 0)
    /\ pyramidPc = "done" =>
           /\ Len(rigidRuns) = 1
           /\ Len(nonrigidLoops) = numPyramidLayers
           /\ Len(scaleShifts) = numPyramidLayers - 1

\* a run of the largest number of levels has finished
C9_Witness ==
    /\ pyramidPc = "done"
    /\ numPyramidLayers = MaxPyramidLayers
    /\ Len(scaleShifts) = MaxPyramidLayers - 1

\* c is numIterations / numPyramidLayers rounded to the nearest integer
IsRoundedQuotient(c) ==
    /\ 2 * numPyramidLayers * c <= 2 * numIterations + numPyramidLayers
    /\ 2 * numIterations + numPyramidLayers < 2 * numPyramidLayers * (c + 1)

RECURSIVE index_row(_, _, _)
index_row(indices, originalIndex, i) ==
    IF i > Len(indices) THEN 0
    ELSE IF indices[i] = originalIndex THEN i
    ELSE index_row(indices, originalIndex, i + 1)

\* a mutation of the scale-shift: the position a coarse vertex has now
coarse_current_position(i, coarseFeatures, coarseIndices, fineFeatures, fineIndices) == SubSeq(coarseFeatures[i], 1, 3)

\* the original position of coarse vertex i: the position of the fine vertex
\* of the same original index, before the shift
coarse_original_position(i, coarseFeatures, coarseIndices, fineFeatures, fineIndices) ==
    LET j == index_row(fineIndices, coarseIndices[i], 1)
    IN  IF j = 0 THEN SubSeq(coarseFeatures[i], 1, 3) ELSE SubSeq(fineFeatures[j], 1, 3)

\* the row of positions nearest to queried, the smaller index on a tie
nearest_row(queried, positions) ==
    LET distanceTo == SeqOf(LAMBDA i : squaredNorm(Vec3Sub(positions[i], queried)),
                            Len(positions))
    IN  CHOOSE i \in 1..Len(positions) : \A l \in 1..Len(positions) :
            /\ ~RGt(distanceTo[i], distanceTo[l])
            /\ (distanceTo[l] = distanceTo[i] => i <= l)

\* the new features of the fine level
scale_shift(coarseFeatures, coarseIndices, fineFeatures, fineIndices) ==
    LET coarsePositions ==
            SeqOf(LAMBDA i : coarse_original_position(i, coarseFeatures, coarseIndices,
                                                      fineFeatures, fineIndices),
                  Len(coarseIndices))
    IN  SeqOf(LAMBDA j :
                  LET i == index_row(coarseIndices, fineIndices[j], 1)
                  IN  IF i /= 0 THEN coarseFeatures[i]
                      ELSE coarseFeatures[nearest_row(SubSeq(fineFeatures[j], 1, 3),
                                                      coarsePositions)],
              Len(fineIndices))

\* the fine level: vertices one unit apart on a line, every second vertex
\* of the original mesh
FineFeatures(numFine) ==
    SeqOf(LAMBDA j : <<R(j - 1), R(0), R(0), R(0), R(0), R(1)>>, numFine)

FineIndices(numFine) == SeqOf(LAMBDA j : 2 * (j - 1), numFine)

\* the members of a set of numbers in increasing order
RECURSIVE SortedSeq(_)
SortedSeq(S) ==
    IF S = {} THEN <<>>
    ELSE LET least == CHOOSE x \in S : \A y \in S : x <= y
         IN  <<least>> \o SortedSeq(S \ {least})

\* how far the registration of the coarse level has moved a coarse vertex
DisplacementChoices == {<<0, 0, 0>>, <<0, 1, 0>>, <<2, 0, 0>>}

\* the coarse level: the fine vertices of rows, every one moved by moved[row]
CoarseFeatures(rows, moved, fineFeatures) ==
    SeqOf(LAMBDA i :
              LET f == fineFeatures[rows[i]]
                  d == moved[rows[i]]
              IN  <<RAdd(f[1], R(d[1])), RAdd(f[2], R(d[2])), RAdd(f[3], R(d[3])),
                    f[4], f[5], f[6]>>,
          Len(rows))

InitShift ==
    /\ IdleCorr
    /\ IdleRigid
    /\ IdleVisco
    /\ IdleMain
    /\ IdlePyramid
    /\ IdleDownsample
    /\ IdleInlier
    /\ \E numFine \in 1..MaxVertices :
       \E kept \in (SUBSET (1..numFine)) \ {{}} :
       \E moved \in [kept -> DisplacementChoices] :
           /\ newFeatures = FineFeatures(numFine)
           /\ newIndices = FineIndices(numFine)
           /\ previousIndices =
                  SeqOf(LAMBDA i : FineIndices(numFine)[SortedSeq(kept)[i]], Cardinality(kept))
           /\ previousFeatures = CoarseFeatures(SortedSeq(kept), moved, FineFeatures(numFine))
    /\ unshiftedFeatures = <<>>
    /\ shiftPc = "input"

\* scaleShifter.update()
ScaleShiftMesh ==
    /\ shiftPc = "input"
    /\ newFeatures' = scale_shift(previousFeatures, previousIndices, newFeatures, newIndices)
    /\ unshiftedFeatures' = newFeatures
    /\ shiftPc' = "shifted"
    /\ UNCHANGED <<previousFeatures, previousIndices, newIndices>>
    /\ UNCHANGED notShiftVars

NextShift == ScaleShiftMesh

SpecShift == InitShift /\ [][NextShift]_vars

(***************************************************************************)
(* Claims about the scale shifter, under SpecShift.                        *)
(***************************************************************************)
\* coarse vertex i is, by original position, a coarse vertex nearest to fine vertex j
IsNearestCoarse(i, j) ==
    \A i2 \in 1..Len(previousIndices) :
        \A ji \in {index_row(newIndices, previousIndices[i], 1)} :
        \A ji2 \in {index_row(newIndices, previousIndices[i2], 1)} :
            ~RGt(squaredNorm(Vec3Sub(SubSeq(unshiftedFeatures[ji], 1, 3),
                                     SubSeq(unshiftedFeatures[j], 1, 3))),
                 squaredNorm(Vec3Sub(SubSeq(unshiftedFeatures[ji2], 1, 3),
                                     SubSeq(unshiftedFeatures[j], 1, 3))))

\* C11: after a scale-shift with every coarse index present among the fine
\* indices, a fine vertex whose original index is indicesCoarse[i] has the
\* feature row of coarse vertex i, and every other fine vertex has the
\* feature row of the coarse vertex whose original position is nearest
C11_ScaleShiftRows ==
    shiftPc = "shifted" =>
        \A j \in 1..Len(newIndices) :
            IF \E i \in 1..Len(previousIndices) : previousIndices[i] = newIndices[j]
            THEN \A i \in 1..Len(previousIndices) :
                     previousIndices[i] = newIndices[j] => newFeatures[j] = previousFeatures[i]
            ELSE \E i \in 1..Len(previousIndices) :
                     IsNearestCoarse(i, j) /\ newFeatures[j] = previousFeatures[i]

\* a fine vertex without a coarse counterpart has taken over a moved row
C11_Witness ==
    /\ shiftPc = "shifted"
    /\ \E j \in 1..Len(newIndices) :
           /\ \A i \in 1..Len(previousIndices) : previousIndices[i] /= newIndices[j]
           /\ newFeatures[j] /= unshiftedFeatures[j]
    /\ \E j \in 1..Len(newIndices), i \in 1..Len(previousIndices) :
           previousIndices[i] = newIndices[j] /\ newFeatures[j] /= unshiftedFeatures[j]

(***************************************************************************)
(* Downsampler::update, the body of downsample_mesh: edges are collapsed   *)
(* one by one, the cheapest first, until the target number of vertices is  *)
(* met.  The cost of an edge is not modelled: every edge that may be       *)
(* collapsed can be the next one.                                          *)
(***************************************************************************)
\* a mutation of the downsampler: every edge may be collapsed
collapse_allowed_everywhere(removed, kept, vertexFlags) == TRUE

\* a mutation of the downsampler: one-based rows as original indices
original_index_one_based(vertex) == vertex

\* an edge is not collapsed across the boundary between flag 0 and flag 1
collapse_allowed(removed, kept, vertexFlags) == vertexFlags[removed] = vertexFlags[kept]

\* the original index of a vertex: its row in the input mesh, counted from 0
original_index(vertex) == vertex - 1

\* a mutation of the downsampler: the ratio as the fraction to keep
target_count_kept(numVertices, ratio) == (2 * numVertices * ratio[1] + ratio[2]) \div (2 * ratio[2])

\* round(numVertices * (1 - ratio)), halves rounded up
Floor(a) == a[1] \div a[2]

target_count(numVertices, ratio) ==
    Floor(RAdd(RMul(R(numVertices), RSub(R(1), ratio)), Frac(1, 2)))

\* the edges of the mesh after the collapse of removed into kept
collapse_edge(edges, removed, kept) ==
    {e \in {{IF x = removed THEN kept ELSE x : x \in edge} : edge \in edges} :
        Cardinality(e) = 2}

\* the collapses the downsampler can do next
collapsible(vertices, edges, vertexFlags) ==
    {c \in vertices \X vertices :
        {c[1], c[2]} \in edges /\ collapse_allowed(c[1], c[2], vertexFlags)}

\* the input meshes: a strip of triangles over numVertices vertices
StripEdges(numVertices) ==
    {{i, j} : i \in 1..numVertices, j \in 1..numVertices} \cap
    {e \in SUBSET (1..numVertices) :
        Cardinality(e) = 2 /\ \A x \in e, y \in e : x - y <= 2}

RatioChoices == {R(0), Frac(1, 2), Frac(4, 5), R(1)}

InitDownsample ==
    /\ IdleCorr
    /\ IdleRigid
    /\ IdleVisco
    /\ IdleMain
    /\ IdlePyramid
    /\ IdleShift
    /\ IdleInlier
    /\ \E numVertices \in 3..(MaxVertices + 1) :
           /\ floatingFlags \in [1..numVertices -> {R(0), R(1)}]
           /\ meshVertices = 1..numVertices
           /\ meshEdges = StripEdges(numVertices)
    /\ downsampleRatio \in RatioChoices
    /\ collapses = {}
    /\ originalIndices = <<>>
    /\ downsampledFlags = <<>>
    /\ downsamplePc = "collapsing"

\* one collapse: the target is not met yet
CollapseEdge ==
    /\ downsamplePc = "collapsing"
    /\ Cardinality(meshVertices) > target_count(Len(floatingFlags), downsampleRatio)
    /\ \E c \in collapsible(meshVertices, meshEdges, floatingFlags) :
           /\ meshVertices' = meshVertices \ {c[1]}
           /\ meshEdges' = collapse_edge(meshEdges, c[1], c[2])
           /\ collapses' = collapses \cup {c}
    /\ UNCHANGED <<floatingFlags, downsampleRatio, originalIndices, downsampledFlags, downsamplePc>>
    /\ UNCHANGED notDownsampleVars

\* the target is met or no edge is left to collapse: the outputs are written
WriteDownsampledMesh ==
    /\ downsamplePc = "collapsing"
    /\ \/ Cardinality(meshVertices) <= target_count(Len(floatingFlags), downsampleRatio)
       \/ collapsible(meshVertices, meshEdges, floatingFlags) = {}
    /\ originalIndices' = SeqOf(LAMBDA i : original_index(SortedSeq(meshVertices)[i]),
                                Cardinality(meshVertices))
    /\ downsampledFlags' = SeqOf(LAMBDA i : floatingFlags[SortedSeq(meshVertices)[i]],
                                 Cardinality(meshVertices))
    /\ downsamplePc' = "done"
    /\ UNCHANGED <<floatingFlags, downsampleRatio, meshVertices, meshEdges, collapses>>
    /\ UNCHANGED notDownsampleVars

NextDownsample == CollapseEdge \/ WriteDownsampledMesh

SpecDownsample == InitDownsample /\ [][NextDownsample]_vars

(***************************************************************************)
(* Claims about the downsampler, under SpecDownsample.                     *)
(***************************************************************************)
\* C12: the originalIndices the downsampler emits are injective and every
\* value lies in [0, N_original), after any sequence of collapses
C12_OriginalIndicesInjective ==
    downsamplePc = "done" =>
        /\ Len(originalIndices) = Cardinality(meshVertices)
        /\ \A i \in 1..Len(originalIndices) :
               originalIndices[i] >= 0 /\ originalIndices[i] < Len(floatingFlags)
        /\ \A i \in 1..Len(originalIndices), j \in 1..Len(originalIndices) :
               originalIndices[i] = originalIndices[j] => i = j

\* the last vertex of the input mesh survives a collapse sequence
C12_Witness ==
    /\ downsamplePc = "done"
    /\ collapses /= {}
    /\ Len(originalIndices) >= 2
    /\ originalIndices[Len(originalIndices)] = Len(floatingFlags) - 1

\* count is numVertices * (1 - ratio), rounded to a nearest integer
IsRoundedCount(count, numVertices, ratio) ==
    /\ 2 * ratio[2] * count <= 2 * numVertices * (ratio[2] - ratio[1]) + ratio[2]
    /\ 2 * ratio[2] * count >= 2 * numVertices * (ratio[2] - ratio[1]) - ratio[2]

C14_NoCollapseAcrossFlags ==
    \A c \in collapses : floatingFlags[c[1]] = floatingFlags[c[2]]

\* collapses were done and the only edges left cross the flag boundary
C14_Witness ==
    /\ collapses /= {}
    /\ meshEdges /= {}
    /\ \A e \in meshEdges : \E x \in e, y \in e : floatingFlags[x] /= floatingFlags[y]
    /\ downsamplePc = "done"

(***************************************************************************)
(* InlierDetector::update, the body of compute_inlier_weights.             *)
(***************************************************************************)
\* a mutation of the inlier detector: the flag is left out of the weight
flagged_weight_unflagged(weight, flag) == weight

\* the square root of a float that is the square of a small rational
sqrt(a) ==
    IF IsNaN(a) THEN NaN
    ELSE Frac(CHOOSE n \in 0..a[1] : n * n = a[1], CHOOSE d \in 1..a[2] : d * d = a[2])

\* the residual of vertex i: the distance to its correspondence, positions only
residual(floating, corresponding, i) ==
    sqrt(squaredNorm(SeqOf(LAMBDA k : RSub(floating[i][k], corresponding[i][k]), 3)))

\* sigma, the mean of the residuals weighted with the weights of the previous pass
weighted_mean_residual(residuals, weights) ==
    RDiv(Dot(weights, residuals), RSum(weights))

\* 1 / (1 + (r / (kappa * sigma))^2) on floats: r / 0 is infinite for r > 0,
\* and 0 / 0 is not a number
kernel_weight(r, paramKappa, sigma) ==
    IF IsNaN(r) \/ IsNaN(sigma) THEN NaN
    ELSE IF RMul(paramKappa, sigma)[1] = 0
         THEN IF r[1] = 0 THEN NaN ELSE R(0)
         ELSE LET scaled == RDiv(r, RMul(paramKappa, sigma))
              IN  RDiv(R(1), RAdd(R(1), RMul(scaled, scaled)))

\* the weight of an invalid correspondence is multiplied by its flag 0
flagged_weight(weight, flag) == RMul(weight, flag)

\* the weights of one pass of the detector
inlier_weights(floating, corresponding, vertexFlags, paramKappa, previousWeights) ==
    LET residuals == SeqOf(LAMBDA i : residual(floating, corresponding, i), Len(floating))
        sigma == weighted_mean_residual(residuals, previousWeights)
    IN  [sigma |-> sigma,
         weights |-> SeqOf(LAMBDA i : flagged_weight(kernel_weight(residuals[i], paramKappa, sigma), vertexFlags[i]), Len(floating))]

\* the inputs: the distance from a vertex to its correspondence
ResidualChoices == {<<0, 0, 0>>, <<0, 2, 0>>}

\* inlierKappa: 3 in main, 4 by default
KappaChoices == {R(3), R(4)}

InitInlier ==
    /\ IdleCorr
    /\ IdleRigid
    /\ IdleVisco
    /\ IdleMain
    /\ IdlePyramid
    /\ IdleShift
    /\ IdleDownsample
    /\ \E numVertices \in 1..MaxVertices :
           /\ inlierFloatingPositions = LinePositions(numVertices)
           /\ \E moved \in [1..numVertices -> ResidualChoices] :
                  inlierCorrespondingPositions =
                      SeqOf(LAMBDA i : SeqOf(LAMBDA k : RAdd(LinePositions(numVertices)[i][k], R(moved[i][k])), 3), numVertices)
           /\ correspondingFlags \in [1..numVertices -> {R(0), R(1)}]
           \* no previous pass: uniform weights
           /\ inlierWeights = SeqOf(LAMBDA i : R(1), numVertices)
    /\ kappa \in KappaChoices
    /\ inlierSigma = R(0)
    /\ inlierPc = "input"

\* the first pass of compute_inlier_weights
ComputeInlierWeights ==
    /\ inlierPc = "input"
    /\ \E pass \in {inlier_weights(inlierFloatingPositions, inlierCorrespondingPositions, correspondingFlags, kappa, inlierWeights)} :
           /\ inlierWeights' = pass.weights
           /\ inlierSigma' = pass.sigma
    /\ inlierPc' = "weighted"
    /\ UNCHANGED <<inlierFloatingPositions, inlierCorrespondingPositions, correspondingFlags, kappa>>
    /\ UNCHANGED notInlierVars

\* the pass of the next iteration: sigma from the weights of the pass before
RecomputeInlierWeights ==
    /\ inlierPc = "weighted"
    /\ \E pass \in {inlier_weights(inlierFloatingPositions, inlierCorrespondingPositions, correspondingFlags, kappa, inlierWeights)} :
           /\ inlierWeights' = pass.weights
           /\ inlierSigma' = pass.sigma
    /\ inlierPc' = "reweighted"
    /\ UNCHANGED <<inlierFloatingPositions, inlierCorrespondingPositions, correspondingFlags, kappa>>
    /\ UNCHANGED notInlierVars

NextInlier == ComputeInlierWeights \/ RecomputeInlierWeights

SpecInlier == InitInlier /\ [][NextInlier]_vars

(***************************************************************************)
(* Claims about the inlier detector, under SpecInlier.                     *)
(***************************************************************************)
IsUnitWeight(a) == ~IsNaN(a) /\ a[1] >= 0 /\ a[1] <= a[2]

=============================================================================
